---------------------------- MODULE Spec2Model ----------------------------
(***************************************************************************)
(* A model of src/objects-tasks.js: the CssSelector class with its facade  *)
(* cssSelectorBuilder, and the sellTickets simulation.                     *)
(*                                                                         *)
(* Selector objects live in a heap, `nodes`: a node is referred to by its  *)
(* index, so that a combined selector holds references to its two sides,   *)
(* as the JavaScript objects do.  A method call that throws leaves the     *)
(* object in the state it had at the throw.                                *)
(***************************************************************************)
EXTENDS Integers, Sequences, FiniteSets, TLC

\* ------------------------------------------------------------------ bounds

\* Fragments one selector may hold in the single-chain specification Spec.
MaxChain == 6
\* Selector objects in the heap of SpecTree.
MaxNodes == 3
\* Fragments held by all the selectors of the heap together, in SpecTree.
MaxFrags == 2
\* Length of the queue given to sellTickets.
MaxQueue == 7

\* The values passed to the builder in Spec, and in SpecTree.
Values == {"div", "main"}
TreeValues == {"div"}
\* The combinators passed to combine.
Combinators == {" ", "+", "~", ">"}

\* ------------------------------------------------------- JavaScript values

\* null (this.lastAdded, and the default arguments of the constructor)
Null == "null"
\* no exception thrown
NoError == ""

DuplicateMessage ==
  "Element, id and pseudo-element should not occur more than one time inside the selector"

OrderMessage ==
  "Selector parts should be arranged in the following order: element, id, class, attribute, pseudo-class, pseudo-element"

\* Array.prototype.indexOf: the 0-based index of the first x in arr, or -1.
indexOf(arr, x) ==
  IF \E k \in 1..Len(arr) : arr[k] = x
  THEN (CHOOSE k \in 1..Len(arr) :
          arr[k] = x /\ \A j \in 1..(k - 1) : arr[j] # x) - 1
  ELSE -1

\* ------------------------------------------------------------- CssSelector

\* const order = [...] of validateOrder
order == <<"element", "id", "class", "attr", "pseudoClass", "pseudoElement">>

\* const outputOrder = [...] of stringify
outputOrder == <<"element", "id", "class", "attr", "pseudoClass", "pseudoElement">>

Types == {order[k] : k \in 1..Len(order)}

\* The fields the constructor sets before it looks at its arguments.  A key
\* absent from this.parts is the empty sequence: addPart never leaves an
\* empty array behind.  this.combined is <<>> for null, else <<record>>.
EmptySelector ==
  [parts            |-> [t \in Types |-> <<>>],
   hasElement       |-> FALSE,
   hasId            |-> FALSE,
   hasPseudoElement |-> FALSE,
   lastAdded        |-> Null,
   combined         |-> <<>>]

\* addPart as it would be if it dropped a value the type already holds.
addPartUnique(self, type, value) ==
  IF \E k \in 1..Len(self.parts[type]) : self.parts[type][k] = value
  THEN self
  ELSE [self EXCEPT !.parts[type] = Append(@, value)]

\* addPart(type, value)
addPart(self, type, value) ==
  [self EXCEPT !.parts[type] = Append(@, value)]

\* validateOrder as it would be with >= for >: a repeated kind is refused.
validateOrderNoRepeat(self, nextType) ==
  IF indexOf(order, self.lastAdded) >= indexOf(order, nextType)
  THEN OrderMessage ELSE NoError

\* validateOrder as it would be if it let a kind follow the next one up.
validateOrderOffByOne(self, nextType) ==
  IF indexOf(order, self.lastAdded) > indexOf(order, nextType) + 1
  THEN OrderMessage ELSE NoError

\* validateOrder(nextType): the message of the error it throws, or NoError.
validateOrder(self, nextType) ==
  LET currentIndex == indexOf(order, self.lastAdded)
      nextIndex    == indexOf(order, nextType)
  IN  IF currentIndex > nextIndex THEN OrderMessage ELSE NoError

\* The constructor as it would be if it left the three flags to the methods.
CssSelectorFlagsUnset(value, type) ==
  IF value # Null /\ type # Null
  THEN [addPart(EmptySelector, type, value) EXCEPT !.lastAdded = type]
  ELSE EmptySelector

\* new CssSelector(value, type)
CssSelector(value, type) ==
  IF value # Null /\ type # Null
  THEN LET added == addPart(EmptySelector, type, value)
           flagged ==
             IF type = "element" THEN [added EXCEPT !.hasElement = TRUE]
             ELSE IF type = "id" THEN [added EXCEPT !.hasId = TRUE]
             ELSE IF type = "pseudoElement"
                  THEN [added EXCEPT !.hasPseudoElement = TRUE]
             ELSE added
       IN  [flagged EXCEPT !.lastAdded = type]
  ELSE EmptySelector

\* The outcome of a method call: the object as the call leaves it, and the
\* message of the error thrown (NoError when the call returns this).
Threw(self, message) == [self |-> self, threw |-> message]
Returned(self) == [self |-> self, threw |-> NoError]

\* element as it would be without its check of hasElement.
elementUnchecked(self, value) ==
  IF validateOrder(self, "element") # NoError
  THEN Threw(self, validateOrder(self, "element"))
  ELSE Returned([addPart(self, "element", value)
                   EXCEPT !.hasElement = TRUE, !.lastAdded = "element"])

\* element(value)
element(self, value) ==
  IF validateOrder(self, "element") # NoError
  THEN Threw(self, validateOrder(self, "element"))
  ELSE IF self.hasElement
  THEN Threw(self, DuplicateMessage)
  ELSE Returned([addPart(self, "element", value)
                   EXCEPT !.hasElement = TRUE, !.lastAdded = "element"])

\* id as it would be if it called addPart before its check of hasId.
idAddsFirst(self, value) ==
  IF validateOrder(self, "id") # NoError
  THEN Threw(self, validateOrder(self, "id"))
  ELSE IF self.hasId
  THEN Threw(addPart(self, "id", value), DuplicateMessage)
  ELSE Returned([addPart(self, "id", value)
                   EXCEPT !.hasId = TRUE, !.lastAdded = "id"])

\* id(value)
id(self, value) ==
  IF validateOrder(self, "id") # NoError
  THEN Threw(self, validateOrder(self, "id"))
  ELSE IF self.hasId
  THEN Threw(self, DuplicateMessage)
  ELSE Returned([addPart(self, "id", value)
                   EXCEPT !.hasId = TRUE, !.lastAdded = "id"])

\* class(value)
class(self, value) ==
  IF validateOrder(self, "class") # NoError
  THEN Threw(self, validateOrder(self, "class"))
  ELSE Returned([addPart(self, "class", value) EXCEPT !.lastAdded = "class"])

\* attr(value)
attr(self, value) ==
  IF validateOrder(self, "attr") # NoError
  THEN Threw(self, validateOrder(self, "attr"))
  ELSE Returned([addPart(self, "attr", value) EXCEPT !.lastAdded = "attr"])

\* pseudoClass(value)
pseudoClass(self, value) ==
  IF validateOrder(self, "pseudoClass") # NoError
  THEN Threw(self, validateOrder(self, "pseudoClass"))
  ELSE Returned([addPart(self, "pseudoClass", value)
                   EXCEPT !.lastAdded = "pseudoClass"])

\* pseudoElement(value)
pseudoElement(self, value) ==
  IF validateOrder(self, "pseudoElement") # NoError
  THEN Threw(self, validateOrder(self, "pseudoElement"))
  ELSE IF self.hasPseudoElement
  THEN Threw(self, DuplicateMessage)
  ELSE Returned([addPart(self, "pseudoElement", value)
                   EXCEPT !.hasPseudoElement = TRUE,
                          !.lastAdded = "pseudoElement"])

\* combine: const combined = new CssSelector(); combined.combined = {...}.
\* The two sides are stored as references (heap indices).
combine(selector1, combinator, selector2) ==
  [CssSelector(Null, Null) EXCEPT
     !.combined = <<[selector1  |-> selector1,
                     combinator |-> combinator,
                     selector2  |-> selector2]>>]

\* The switch as it would be with one colon for a pseudo-element.
prefixOfOneColon(type) ==
  CASE type = "element"       -> ""
    [] type = "id"            -> "#"
    [] type = "class"         -> "."
    [] type = "attr"          -> "["
    [] type = "pseudoClass"   -> ":"
    [] type = "pseudoElement" -> ":"
    [] OTHER                  -> ""

\* The switch of stringify: the prefix and the suffix of a type.
prefixOf(type) ==
  CASE type = "element"       -> ""
    [] type = "id"            -> "#"
    [] type = "class"         -> "."
    [] type = "attr"          -> "["
    [] type = "pseudoClass"   -> ":"
    [] type = "pseudoElement" -> "::"
    [] OTHER                  -> ""

suffixOf(type) == IF type = "attr" THEN "]" ELSE ""

\* this.parts[type].forEach((value) => { result += prefix value suffix })
RECURSIVE appendValues(_, _, _)
appendValues(result, type, values) ==
  IF values = <<>> THEN result
  ELSE appendValues(result \o prefixOf(type) \o Head(values) \o suffixOf(type),
                    type, Tail(values))

\* outputOrder.forEach((type) => { if (this.parts[type]) ... }), from the
\* k-th type on.
RECURSIVE appendTypes(_, _, _)
appendTypes(result, self, k) ==
  IF k > Len(outputOrder) THEN result
  ELSE appendTypes(IF self.parts[outputOrder[k]] # <<>>
                   THEN appendValues(result, outputOrder[k],
                                     self.parts[outputOrder[k]])
                   ELSE result,
                   self, k + 1)

\* The string stringify builds of a selector that is not combined.
stringifyParts(self) == appendTypes("", self, 1)

\* The template literal as it would be without its two spaces.
combinedStringUnspaced(selector1Str, combinator, selector2Str) ==
  selector1Str \o combinator \o selector2Str

\* The template literal `${selector1Str} ${combinator} ${selector2Str}`.
combinedString(selector1Str, combinator, selector2Str) ==
  selector1Str \o " " \o combinator \o " " \o selector2Str

\* stringify() of the object at index n of heap.
RECURSIVE stringify(_, _)
stringify(heap, n) ==
  IF heap[n].combined # <<>>
  THEN combinedString(stringify(heap, heap[n].combined[1].selector1),
                      heap[n].combined[1].combinator,
                      stringify(heap, heap[n].combined[1].selector2))
  ELSE stringifyParts(heap[n])

\* ------------------------------------------------------------- sellTickets

Bills == {25, 50, 100}

\* The outcome of one case of the switch: whether the loop goes on (FALSE:
\* return false), and the two counters.
Till(goesOn, n25, n50) == [goesOn |-> goesOn, twentyFive |-> n25, fifty |-> n50]

\* case 25
case25(n25, n50) == Till(TRUE, n25 + 1, n50)

\* case 50
case50(n25, n50) ==
  IF n25 = 0 THEN Till(FALSE, n25, n50) ELSE Till(TRUE, n25 - 1, n50 + 1)

\* case 100 as it would be if it tried three 25s before 50 + 25.
case100ThreeFirst(n25, n50) ==
  IF n25 >= 3 THEN Till(TRUE, n25 - 3, n50)
  ELSE IF n50 > 0 /\ n25 > 0 THEN Till(TRUE, n25 - 1, n50 - 1)
  ELSE Till(FALSE, n25, n50)

\* case 100
case100(n25, n50) ==
  IF n50 > 0 /\ n25 > 0 THEN Till(TRUE, n25 - 1, n50 - 1)
  ELSE IF n25 >= 3 THEN Till(TRUE, n25 - 3, n50)
  ELSE Till(FALSE, n25, n50)

\* ------------------------------------------------------------------- state

VARIABLES
  nodes,       \* the heap: the CssSelector objects created so far
  inserted,    \* history: per object, the <<type, value>> of each addPart
  lastCall,    \* the last builder call made, and the error it threw
  queue,       \* sellTickets: its argument
  i,           \* sellTickets: the loop index
  twentyFive,  \* sellTickets: let twentyFive
  fifty,       \* sellTickets: let fifty
  returned     \* sellTickets: "running", or the value returned

selectorVars == <<nodes, inserted, lastCall>>
ticketVars == <<queue, i, twentyFive, fifty, returned>>
vars == <<nodes, inserted, lastCall, queue, i, twentyFive, fifty, returned>>

NoCall == [op |-> "none", self |-> 0, threw |-> NoError]

InitSelectors ==
  /\ nodes = <<>>
  /\ inserted = <<>>
  /\ lastCall = NoCall

InitTickets(queues) ==
  /\ queue \in queues
  /\ i = 0
  /\ twentyFive = 0
  /\ fifty = 0
  /\ returned = "running"

\* Fragments held by the object n, and by the whole heap.
Held(n) == Len(inserted[n])

RECURSIVE HeldUpTo(_)
HeldUpTo(n) == IF n = 0 THEN 0 ELSE Held(n) + HeldUpTo(n - 1)

HeldInHeap == HeldUpTo(Len(nodes))

\* ----------------------------------------------------------------- actions

\* cssSelectorBuilder.<type>(value): return new CssSelector(value, type)
Create(type, value, room) ==
  /\ room
  /\ nodes' = Append(nodes, CssSelector(value, type))
  /\ inserted' = Append(inserted, <<<<type, value>>>>)
  /\ lastCall' = [op |-> "builder." \o type, self |-> Len(nodes) + 1,
                  threw |-> NoError]
  /\ UNCHANGED ticketVars

\* nodes[n].<type>(value), with the outcome the method gives.  A call that
\* would add a fragment is made only while there is room for it.
Invoke(n, type, value, outcome, room) ==
  /\ room \/ outcome.threw # NoError
  /\ nodes' = [nodes EXCEPT ![n] = outcome.self]
  /\ inserted' = IF outcome.threw = NoError
                 THEN [inserted EXCEPT ![n] = Append(@, <<type, value>>)]
                 ELSE inserted
  /\ lastCall' = [op |-> type, self |-> n, threw |-> outcome.threw]
  /\ UNCHANGED ticketVars

BuilderElement(values, room) == \E v \in values : Create("element", v, room)
BuilderId(values, room) == \E v \in values : Create("id", v, room)
BuilderClass(values, room) == \E v \in values : Create("class", v, room)
BuilderAttr(values, room) == \E v \in values : Create("attr", v, room)
BuilderPseudoClass(values, room) == \E v \in values : Create("pseudoClass", v, room)
BuilderPseudoElement(values, room) == \E v \in values : Create("pseudoElement", v, room)

CallElement(n, values, room) ==
  \E v \in values : Invoke(n, "element", v, element(nodes[n], v), room)
CallId(n, values, room) ==
  \E v \in values : Invoke(n, "id", v, id(nodes[n], v), room)
CallClass(n, values, room) ==
  \E v \in values : Invoke(n, "class", v, class(nodes[n], v), room)
CallAttr(n, values, room) ==
  \E v \in values : Invoke(n, "attr", v, attr(nodes[n], v), room)
CallPseudoClass(n, values, room) ==
  \E v \in values : Invoke(n, "pseudoClass", v, pseudoClass(nodes[n], v), room)
CallPseudoElement(n, values, room) ==
  \E v \in values :
    Invoke(n, "pseudoElement", v, pseudoElement(nodes[n], v), room)

\* cssSelectorBuilder.combine(selector1, combinator, selector2)
BuilderCombine(room) ==
  /\ room
  /\ \E s1 \in 1..Len(nodes), s2 \in 1..Len(nodes), c \in Combinators :
       /\ nodes' = Append(nodes, combine(s1, c, s2))
       /\ lastCall' = [op |-> "builder.combine", self |-> Len(nodes) + 1,
                       threw |-> NoError]
  /\ inserted' = Append(inserted, <<>>)
  /\ UNCHANGED ticketVars

\* selector1.combine(combinator, selector2), the method
CallCombine(room) ==
  /\ room
  /\ \E s1 \in 1..Len(nodes), s2 \in 1..Len(nodes), c \in Combinators :
       /\ nodes' = Append(nodes, combine(s1, c, s2))
       /\ lastCall' = [op |-> "combine", self |-> s1, threw |-> NoError]
  /\ inserted' = Append(inserted, <<>>)
  /\ UNCHANGED ticketVars

\* One iteration of the loop of sellTickets, by the case of the switch.
Serve(bill, till) ==
  /\ returned = "running"
  /\ i < Len(queue)
  /\ queue[i + 1] = bill
  /\ twentyFive' = till.twentyFive
  /\ fifty' = till.fifty
  /\ IF till.goesOn
     THEN i' = i + 1 /\ returned' = returned
     ELSE i' = i /\ returned' = "false"
  /\ UNCHANGED <<queue, selectorVars>>

Serve25 == Serve(25, case25(twentyFive, fifty))
Serve50 == Serve(50, case50(twentyFive, fifty))
Serve100 == Serve(100, case100(twentyFive, fifty))

\* The loop ends: return true.
ReturnTrue ==
  /\ returned = "running"
  /\ i >= Len(queue)
  /\ returned' = "true"
  /\ UNCHANGED <<queue, i, twentyFive, fifty, selectorVars>>

\* ---------------------------------------------------------- specifications

\* One selector, built by a facade call and a chain of method calls.
ChainRoom == Len(nodes) = 1 /\ Held(1) < MaxChain

Init == InitSelectors /\ InitTickets({<<>>})

Next ==
  \/ BuilderElement(Values, nodes = <<>>)
  \/ BuilderId(Values, nodes = <<>>)
  \/ BuilderClass(Values, nodes = <<>>)
  \/ BuilderAttr(Values, nodes = <<>>)
  \/ BuilderPseudoClass(Values, nodes = <<>>)
  \/ BuilderPseudoElement(Values, nodes = <<>>)
  \/ \E n \in 1..Len(nodes) : CallElement(n, Values, ChainRoom)
  \/ \E n \in 1..Len(nodes) : CallId(n, Values, ChainRoom)
  \/ \E n \in 1..Len(nodes) : CallClass(n, Values, ChainRoom)
  \/ \E n \in 1..Len(nodes) : CallAttr(n, Values, ChainRoom)
  \/ \E n \in 1..Len(nodes) : CallPseudoClass(n, Values, ChainRoom)
  \/ \E n \in 1..Len(nodes) : CallPseudoElement(n, Values, ChainRoom)

Spec == Init /\ [][Next]_vars

\* A heap of selectors: facade calls, method calls on any object, combine.
NodeRoom == Len(nodes) < MaxNodes
FragRoom == HeldInHeap < MaxFrags

NextTree ==
  \/ BuilderElement(TreeValues, NodeRoom /\ FragRoom)
  \/ BuilderId(TreeValues, NodeRoom /\ FragRoom)
  \/ BuilderClass(TreeValues, NodeRoom /\ FragRoom)
  \/ BuilderAttr(TreeValues, NodeRoom /\ FragRoom)
  \/ BuilderPseudoClass(TreeValues, NodeRoom /\ FragRoom)
  \/ BuilderPseudoElement(TreeValues, NodeRoom /\ FragRoom)
  \/ \E n \in 1..Len(nodes) : CallElement(n, TreeValues, FragRoom)
  \/ \E n \in 1..Len(nodes) : CallId(n, TreeValues, FragRoom)
  \/ \E n \in 1..Len(nodes) : CallClass(n, TreeValues, FragRoom)
  \/ \E n \in 1..Len(nodes) : CallAttr(n, TreeValues, FragRoom)
  \/ \E n \in 1..Len(nodes) : CallPseudoClass(n, TreeValues, FragRoom)
  \/ \E n \in 1..Len(nodes) : CallPseudoElement(n, TreeValues, FragRoom)
  \/ BuilderCombine(NodeRoom)
  \/ CallCombine(NodeRoom)

SpecTree == Init /\ [][NextTree]_vars

\* sellTickets on every queue of at most MaxQueue bills.
Queues == UNION {[1..len -> Bills] : len \in 0..MaxQueue}

InitSell == InitSelectors /\ InitTickets(Queues)

NextSell == Serve25 \/ Serve50 \/ Serve100 \/ ReturnTrue

SpecSell == InitSell /\ [][NextSell]_vars

\* ------------------------------------------------------ terms of the claims

\* The canonical rank of a fragment kind.
CanonicalRank(type) ==
  CASE type = "element"       -> 1
    [] type = "id"            -> 2
    [] type = "class"         -> 3
    [] type = "attr"          -> 4
    [] type = "pseudoClass"   -> 5
    [] type = "pseudoElement" -> 6

\* The decorated text of one fragment.
Decorated(type, value) ==
  CASE type = "element"       -> value
    [] type = "id"            -> "#" \o value
    [] type = "class"         -> "." \o value
    [] type = "attr"          -> "[" \o value \o "]"
    [] type = "pseudoClass"   -> ":" \o value
    [] type = "pseudoElement" -> "::" \o value

Singletons == {"element", "id", "pseudoElement"}
Repeatables == {"class", "attr", "pseudoClass"}

\* A Simple node: one that combine did not make.
Simple(heap, n) == heap[n].combined = <<>>
Combined(heap, n) == heap[n].combined # <<>>

\* The kinds a node holds.
KindsHeld(self) == {t \in Types : self.parts[t] # <<>>}

\* The kind of the fragment added last to n ("none" before the first).
LastKind(n) ==
  IF inserted[n] = <<>> THEN "none" ELSE inserted[n][Len(inserted[n])][1]

\* The decorated fragments of `added`, in the order of `added`.
RECURSIVE InInsertionOrder(_)
InInsertionOrder(added) ==
  IF added = <<>> THEN ""
  ELSE Decorated(Head(added)[1], Head(added)[2]) \o InInsertionOrder(Tail(added))

\* The fragments of `added` whose rank is in ranks, in the order of `added`.
OfRanks(added, ranks) ==
  SelectSeq(added, LAMBDA f : CanonicalRank(f[1]) \in ranks)

\* The decorated fragments of `added` taken kind by kind, from rank r on.
RECURSIVE KindByKind(_, _)
KindByKind(added, r) ==
  IF r > 6 THEN ""
  ELSE InInsertionOrder(OfRanks(added, {r})) \o KindByKind(added, r + 1)

\* The values of one kind in `added`, in the order of `added`.
RECURSIVE ValuesOf(_, _)
ValuesOf(added, type) ==
  IF added = <<>> THEN <<>>
  ELSE (IF Head(added)[1] = type THEN <<Head(added)[2]>> ELSE <<>>)
         \o ValuesOf(Tail(added), type)

\* The step made is the method call `type` on the Simple node n.
IsCall(n, type) ==
  /\ lastCall'.op = type
  /\ lastCall'.self = n
  /\ Len(nodes') = Len(nodes)
  /\ Simple(nodes, n)

\* The leaves and the combinators of the tree under n, from left to right.
RECURSIVE LeftToRight(_, _)
LeftToRight(heap, n) ==
  IF Combined(heap, n)
  THEN LeftToRight(heap, heap[n].combined[1].selector1)
         \o <<heap[n].combined[1].combinator>>
         \o LeftToRight(heap, heap[n].combined[1].selector2)
  ELSE <<KindByKind(inserted[n], 1)>>

\* The strings of tokens with one space between two neighbours.
RECURSIVE SpaceSeparated(_)
SpaceSeparated(tokens) ==
  IF Len(tokens) = 1 THEN Head(tokens)
  ELSE Head(tokens) \o " " \o SpaceSeparated(Tail(tokens))

\* Whether a seller holding n25 and n50 bills can serve queue from its k-th
\* customer on, under some choice of the change given.
RECURSIVE Servable(_, _, _, _)
Servable(q, k, n25, n50) ==
  IF k > Len(q) THEN TRUE
  ELSE CASE q[k] = 25  -> Servable(q, k + 1, n25 + 1, n50)
         [] q[k] = 50  -> n25 >= 1 /\ Servable(q, k + 1, n25 - 1, n50 + 1)
         [] q[k] = 100 ->
              \/ n50 >= 1 /\ n25 >= 1 /\ Servable(q, k + 1, n25 - 1, n50 - 1)
              \/ n25 >= 3 /\ Servable(q, k + 1, n25 - 3, n50)

CanServe(q) == Servable(q, 1, 0, 0)

\* ------------------------------------------------------------------ claims

\* C1, as stated: a further element, id or pseudoElement on a Simple node
\* that holds that kind throws the duplicate error, whatever was added since.
C1_AlwaysDuplicate ==
  [][\A n \in 1..Len(nodes) : \A t \in Singletons :
       IsCall(n, t) /\ t \in KindsHeld(nodes[n])
         => lastCall'.threw = DuplicateMessage]_vars

\* C1, amended: such a call always throws: the duplicate error when the kind
\* is the one added last, the order error when a kind of higher rank was
\* added since.
C1_DuplicateOrOrder ==
  [][\A n \in 1..Len(nodes) : \A t \in Singletons :
       IsCall(n, t) /\ t \in KindsHeld(nodes[n])
         => lastCall'.threw =
              IF LastKind(n) = t THEN DuplicateMessage ELSE OrderMessage]_vars

\* element('div').id('main').element(...) has thrown the order error.
C1_Witness ==
  /\ Len(nodes) = 1
  /\ inserted[1] = <<<<"element", "div">>, <<"id", "main">>>>
  /\ lastCall = [op |-> "element", self |-> 1, threw |-> OrderMessage]

\* C2: a method call on a Simple node throws the order error exactly when
\* the rank of its kind is below the rank of the kind added last.
C2_OrderCheck ==
  [][\A n \in 1..Len(nodes) : \A t \in Types :
       IsCall(n, t)
         => ((lastCall'.threw = OrderMessage)
               <=> (/\ LastKind(n) # "none"
                    /\ CanonicalRank(t) < CanonicalRank(LastKind(n))))]_vars

\* id('main').element(...) has thrown the order error.
C2_Witness ==
  /\ Len(nodes) = 1
  /\ inserted[1] = <<<<"id", "main">>>>
  /\ lastCall = [op |-> "element", self |-> 1, threw |-> OrderMessage]

\* C3: a step whose call throws leaves every object as it was: its parts,
\* its three flags, its lastAdded and its combined; stringify() reads nothing
\* but the objects, so it returns what it returned before.
C3_FailedCallChangesNothing ==
  [][lastCall'.threw # NoError => nodes' = nodes]_vars

\* A second id on a node that holds an id and a class has thrown.
C3_Witness ==
  /\ Len(nodes) = 1
  /\ lastCall = [op |-> "id", self |-> 1, threw |-> OrderMessage]
  /\ nodes[1].parts["id"] # <<>>
  /\ nodes[1].parts["class"] # <<>>

\* C4: a call whose kind is not below the kind added last, and is not a
\* singleton kind the node holds, returns; and stringify() is the decorated
\* fragments taken kind by kind in canonical order.
C4_ValidChainStringifies ==
  /\ [][\A n \in 1..Len(nodes) : \A t \in Types :
          (/\ IsCall(n, t)
           /\ LastKind(n) # "none" => CanonicalRank(t) >= CanonicalRank(LastKind(n))
           /\ t \in Singletons => t \notin KindsHeld(nodes[n]))
            => lastCall'.threw = NoError]_vars
  /\ [](\A n \in 1..Len(nodes) :
          Simple(nodes, n) => stringify(nodes, n) = KindByKind(inserted[n], 1))

\* A selector of all six kinds has been built and stringified.
C4_Witness ==
  /\ Len(nodes) = 1
  /\ inserted[1] = <<<<"element", "div">>, <<"id", "main">>, <<"class", "main">>,
                     <<"attr", "div">>, <<"pseudoClass", "main">>,
                     <<"pseudoElement", "div">>>>
  /\ stringify(nodes, 1) = "div#main.main[div]:main::div"

\* C5: class, attr and pseudoClass on a Simple node whose last kind is not
\* above them return and append their value; the values of the kind are all
\* kept, and stand in stringify() in the order they were added.
C5_RepeatablesKeptInOrder ==
  /\ [][\A n \in 1..Len(nodes) : \A t \in Repeatables :
          (/\ IsCall(n, t)
           /\ LastKind(n) # "none" => CanonicalRank(LastKind(n)) <= CanonicalRank(t))
            => /\ lastCall'.threw = NoError
               /\ \E v \in Values :
                    /\ inserted'[n] = Append(inserted[n], <<t, v>>)
                    /\ nodes'[n].parts[t] = Append(nodes[n].parts[t], v)]_vars
  /\ [](\A n \in 1..Len(nodes) :
          Simple(nodes, n)
            => LET text == stringify(nodes, n)
               IN  \A t \in Repeatables :
                     /\ nodes[n].parts[t] = ValuesOf(inserted[n], t)
                     /\ text =
                          KindByKind(OfRanks(inserted[n], 1..(CanonicalRank(t) - 1)), 1)
                            \o InInsertionOrder(OfRanks(inserted[n], {CanonicalRank(t)}))
                            \o KindByKind(OfRanks(inserted[n], (CanonicalRank(t) + 1)..6), 1))

\* class('main').class('div').class('main'): an equal value added again.
C5_Witness ==
  /\ Len(nodes) = 1
  /\ nodes[1].parts["class"] = <<"main", "div", "main">>
  /\ lastCall = [op |-> "class", self |-> 1, threw |-> NoError]
  /\ stringify(nodes, 1) = ".main.div.main"

\* C6: stringify() of a Combined node is that of its left side, a space, the
\* combinator, a space, that of its right side; so it is the leaves and the
\* combinators from left to right, one space between two neighbours.
C6_CombinedStringify ==
  \A n \in 1..Len(nodes) :
    Combined(nodes, n)
      => /\ nodes[n].combined[1].combinator \in Combinators
         /\ stringify(nodes, n) =
              stringify(nodes, nodes[n].combined[1].selector1)
                \o " " \o nodes[n].combined[1].combinator \o " "
                \o stringify(nodes, nodes[n].combined[1].selector2)
         /\ stringify(nodes, n) = SpaceSeparated(LeftToRight(nodes, n))

\* a = element('div').id('div'); combine(combine(a, '+', a), '>', a).
C6_Witness ==
  /\ Len(nodes) = 3
  /\ inserted[1] = <<<<"element", "div">>, <<"id", "div">>>>
  /\ nodes[2].combined = <<[selector1 |-> 1, combinator |-> "+", selector2 |-> 1]>>
  /\ nodes[3].combined = <<[selector1 |-> 2, combinator |-> ">", selector2 |-> 1]>>
  /\ stringify(nodes, 3) = "div#div + div#div > div#div"

\* C7, as stated: no step changes a Combined node or its stringify().
C7_CombinedImmutable ==
  [][\A n \in 1..Len(nodes) :
       Combined(nodes, n)
         => /\ nodes'[n] = nodes[n]
            /\ stringify(nodes', n) = stringify(nodes, n)]_vars

\* C8: sellTickets returns true exactly for the queues some choice of change
\* can serve, and its two counters are never negative.
C8_SellTickets ==
  /\ returned = "true" => CanServe(queue)
  /\ returned = "false" => ~CanServe(queue)
  /\ twentyFive >= 0
  /\ fifty >= 0

\* A queue served only by giving 50 + 25 for the 100 has returned true.
C8_Witness ==
  /\ queue = <<25, 25, 25, 25, 50, 100, 50>>
  /\ returned = "true"

\* C9: a Simple node holds at most one element, id and pseudoElement, and
\* each flag is true exactly when the node holds a value of its kind.
C9_SingletonFlags ==
  \A n \in 1..Len(nodes) :
    Simple(nodes, n)
      => /\ \A t \in Singletons : Len(nodes[n].parts[t]) <= 1
         /\ nodes[n].hasElement <=> nodes[n].parts["element"] # <<>>
         /\ nodes[n].hasId <=> nodes[n].parts["id"] # <<>>
         /\ nodes[n].hasPseudoElement <=> nodes[n].parts["pseudoElement"] # <<>>

\* A node seeded by the facade's id(...) on which a second id has thrown.
C9_Witness ==
  /\ Len(nodes) = 1
  /\ inserted[1] = <<<<"id", "div">>>>
  /\ nodes[1].hasId
  /\ lastCall = [op |-> "id", self |-> 1, threw |-> DuplicateMessage]

\* C10: the fragments of a Simple node were inserted in non-decreasing rank,
\* lastAdded is the held kind of highest rank (null exactly when none is
\* held), and stringify() is the fragments decorated in insertion order.
C10_OrderedAtInsertion ==
  \A n \in 1..Len(nodes) :
    Simple(nodes, n)
      => /\ \A j \in 1..Len(inserted[n]) : \A k \in j..Len(inserted[n]) :
              CanonicalRank(inserted[n][j][1]) <= CanonicalRank(inserted[n][k][1])
         /\ (nodes[n].lastAdded = Null) <=> (KindsHeld(nodes[n]) = {})
         /\ nodes[n].lastAdded # Null
              => /\ nodes[n].lastAdded \in KindsHeld(nodes[n])
                 /\ \A t \in KindsHeld(nodes[n]) :
                      CanonicalRank(t) <= CanonicalRank(nodes[n].lastAdded)
         /\ stringify(nodes, n) = InInsertionOrder(inserted[n])

\* element, class, class, pseudoElement, then an id that has thrown.
C10_Witness ==
  /\ Len(nodes) = 1
  /\ inserted[1] = <<<<"element", "div">>, <<"class", "main">>,
                     <<"class", "div">>, <<"pseudoElement", "main">>>>
  /\ nodes[1].lastAdded = "pseudoElement"
  /\ lastCall = [op |-> "id", self |-> 1, threw |-> OrderMessage]

=============================================================================
